---- MODULE Spec2Model ----
(***************************************************************************)
(* Model of the image pipeline of src/lib/imageProcessor.ts:               *)
(* downloadImage (the cache-coherent fetcher), with the filesystem under   *)
(* public/images, the DITHER_IMAGES environment value and a bounded number *)
(* of invocations that interleave at the await points of the code.         *)
(*                                                                         *)
(* Strings are sequences of one-character strings, so that split('?') and  *)
(* the template strings of the code are computed, not assumed.             *)
(***************************************************************************)
EXTENDS Integers, Sequences, FiniteSets, TLC

VARIABLES
    env,        \* process.env.DITHER_IMAGES
    dirExists,  \* does public/images exist
    files,      \* path -> content of the file at that path
    call,       \* invocation id -> the invocation's local state
    lastWrite,  \* path -> id of the invocation whose toFile finished last (history)
    ku,         \* pair of URLs whose keys are computed (key specification)
    kout,       \* pair of computed keys (key specification)
    dim,        \* one image's dimensions through the resize (resize specification)
    km          \* one run of the palette extractor and the quantizer (palette specification)

vars == <<env, dirExists, files, call, lastWrite, ku, kout, dim, km>>

----------------------------------------------------------------------------
(* Bounds of the model *)

MaxCalls == 2
MaxUrlLen == 3

Calls == 1..MaxCalls

----------------------------------------------------------------------------
(* Strings *)

RECURSIVE IndexOf(_, _, _)
\* first index >= i of character ch in s, or 0
IndexOf(s, ch, i) ==
    IF i > Len(s) THEN 0
    ELSE IF s[i] = ch THEN i
    ELSE IndexOf(s, ch, i + 1)

\* faulty variant: the query string is not stripped
UrlUnstripped(url) == url

\* url.split('?')[0]
UrlWithoutParams(url) ==
    LET q == IndexOf(url, "?", 1) IN
    IF q = 0 THEN url ELSE SubSeq(url, 1, q - 1)

\* createHash('md5').update(s).digest('hex'): an opaque digest, taken as
\* collision-free on the small domain of the model
Md5(s) == <<"md5[">> \o s \o <<"]">>

HashOf(url) == Md5(UrlWithoutParams(url))

\* `${hash}.webp`
Filename(url) == HashOf(url) \o <<".webp">>

PublicImagesDir == <<"cwd/public/images/">>

\* path.join(publicImagesDir, filename)
Filepath(url) == PublicImagesDir \o Filename(url)

\* faulty variant: the filesystem path is returned as the public URL
FileURLAsPath(url) == PublicImagesDir \o Filename(url)

\* `/images/${filename}`
FileURL(url) == <<"/images/">> \o Filename(url)

\* path.join(publicImagesDir, `temp_${hash}.tmp`)
TempFilepath(url) == PublicImagesDir \o <<"temp_">> \o HashOf(url) \o <<".tmp">>

----------------------------------------------------------------------------
(* Inputs *)

Urls == { <<"a", "?", "x">>, <<"a", "?", "y">>, <<"b">> }

Paths == { Filepath(u) : u \in Urls } \cup { TempFilepath(u) : u \in Urls }

\* what the fetch can deliver: an image, bytes that are no image, an image
\* whose width and height cannot be determined
Bytes == {"image", "garbage", "nodims"}

\* file contents
Absent == [data |-> "none", by |-> 0, complete |-> FALSE]
\* the scratch file after writeFileSync: the downloaded bytes, or the
\* beginning of them when the write failed half way
Raw(kind, whole) ==
    [data |-> IF whole THEN kind ELSE "truncated", by |-> 0, complete |-> whole]

\* faulty variant: an existing complete output is kept (exclusive create)
WebpKeepFirst(old, c, whole) ==
    IF old.data = "webp" /\ old.complete THEN old
    ELSE [data |-> "webp", by |-> c, complete |-> whole]

\* what toFile leaves at the output path: the file is opened (created or
\* truncated) when the save starts and holds the whole output when it ends
Webp(old, c, whole) == [data |-> "webp", by |-> c, complete |-> whole]

\* fs.existsSync
ExistsSync(fs, p) == fs[p] # Absent

NoBlur == "undefined"
NoResult == [url |-> <<>>, blurDataURL |-> NoBlur]

\* the resize and the palette specifications at rest
NoDim ==
    [in |-> <<0, 0>>, path |-> "none", status |-> "none",
     target |-> <<0, 0>>, out |-> <<0, 0>>]
NoKm == [phase |-> "none"]

Idle ==
    [pc |-> "idle", url |-> <<>>, shouldDither |-> FALSE, buffer |-> "none",
     result |-> NoResult, failure |-> "none", threw |-> FALSE, fetches |-> 0,
     seen |-> "none", createdDir |-> FALSE, createdScratch |-> FALSE,
     wroteCache |-> FALSE, after |-> {}]

----------------------------------------------------------------------------
(* downloadImage: the catch block and the two return statements *)

\* faulty variant: the error escapes to the caller
CatchRethrow(r, point) ==
    [r EXCEPT !.pc = "done", !.buffer = "none", !.failure = point, !.threw = TRUE]

\* faulty variant: the fallback returns the URL without its query string
CatchStripped(r, point) ==
    [r EXCEPT !.pc = "done", !.buffer = "none", !.failure = point,
              !.result = [url |-> UrlWithoutParams(r.url), blurDataURL |-> NoBlur]]

\* catch (error) { console.error(...); return { url } }
Catch(r, point) ==
    [r EXCEPT !.pc = "done", !.buffer = "none", !.failure = point,
              !.result = [url |-> r.url, blurDataURL |-> NoBlur]]

\* return { url: fileURL, blurDataURL: await getImagePlaceholder(filepath) }
ReturnLocal(r, blur) ==
    [r EXCEPT !.pc = "done", !.buffer = "none",
              !.result = [url |-> FileURL(r.url), blurDataURL |-> blur]]

----------------------------------------------------------------------------
(* State *)

Init ==
    /\ env \in {"true", "false"}
    /\ dirExists = FALSE
    /\ files = [p \in Paths |-> Absent]
    /\ call = [c \in Calls |-> Idle]
    /\ lastWrite = [p \in Paths |-> 0]
    /\ ku = <<>>
    /\ kout = <<>>
    /\ dim = NoDim
    /\ km = NoKm

Put(c, r) == call' = [call EXCEPT ![c] = r]

\* faulty variant: the existence check never finds the file
NeverHit(fs, p) == FALSE

\* faulty variant: under dithering a cache file is not a hit
TakesHitBranchPlainOnly(fs, p) == ExistsSync(fs, p) /\ env # "true"

\* if (fs.existsSync(filepath)) { return ... }
TakesHitBranch(fs, p) == ExistsSync(fs, p)

\* faulty variant: the local url is returned as soon as the file is written,
\* without generating the placeholder
ContinueWithoutPlaceholder(r, err) ==
    IF err = "none" THEN ReturnLocal(r, NoBlur) ELSE Catch(r, err)

\* the rest of the try block after applyDithering settled with err, or the
\* catch block
Continue(r, err) ==
    IF err = "none" THEN [r EXCEPT !.pc = "placeholder", !.buffer = "none"] ELSE Catch(r, err)

\* faulty variant: unlinkSync is called without the existence check, and
\* throws when the file is not there
FinallyNoCheck(c, r, fs, err) ==
    LET t == TempFilepath(r.url) IN
    \E unlinkOk \in BOOLEAN :
        IF ExistsSync(fs, t) /\ unlinkOk
        THEN /\ files' = [fs EXCEPT ![t] = Absent]
             /\ Put(c, Continue(r, err))
        ELSE /\ files' = fs
             /\ Put(c, Catch(r, "unlink"))

\* faulty variant: after a failure the cache file is removed with the
\* scratch file
FinallyRemovingOutput(c, r, fs, err) ==
    LET t == TempFilepath(r.url)
        gs == IF err = "none" THEN fs ELSE [fs EXCEPT ![Filepath(r.url)] = Absent]
    IN
    \E unlinkOk \in BOOLEAN :
        IF ExistsSync(gs, t)
        THEN IF unlinkOk
             THEN /\ files' = [gs EXCEPT ![t] = Absent]
                  /\ Put(c, Continue(r, err))
             ELSE /\ files' = gs
                  /\ Put(c, Catch(r, "unlink"))
        ELSE /\ files' = gs
             /\ Put(c, Continue(r, err))

\* finally { if (fs.existsSync(tempFilepath)) fs.unlinkSync(tempFilepath) }
\* run on fs after applyDithering settled with err; an error thrown by
\* unlinkSync replaces err
Finally(c, r, fs, err) ==
    LET t == TempFilepath(r.url) IN
    \E unlinkOk \in BOOLEAN :
        IF ExistsSync(fs, t)
        THEN IF unlinkOk
             THEN /\ files' = [fs EXCEPT ![t] = Absent]
                  /\ Put(c, Continue(r, err))
             ELSE /\ files' = fs
                  /\ Put(c, Catch(r, "unlink"))
        ELSE /\ files' = fs
             /\ Put(c, Continue(r, err))

\* how an asynchronous step of the two paths ends: the dither path runs the
\* finally block, the plain path goes on or to the catch block
Settle(c, r, fs, err) ==
    IF r.shouldDither
    THEN Finally(c, r, fs, err)
    ELSE files' = fs /\ Put(c, Continue(r, err))

----------------------------------------------------------------------------
(* Operations *)

\* the environment value changes while the process runs (a change after the
\* last invocation has read it is not observed by anything)
SetEnv ==
    /\ \E c \in Calls : call[c].pc = "idle"
    /\ env' = IF env = "true" THEN "false" ELSE "true"
    /\ UNCHANGED <<dirExists, files, call, lastWrite, ku, kout, dim, km>>

\* the URLs invocation c is given: the two query strings of 'a' are
\* interchangeable, so the one that is used first is 'x'
UrlsOf(c) ==
    { u \in Urls :
         u = <<"a", "?", "y">> => \E d \in 1..(c - 1) : call[d].url = <<"a", "?", "x">> }

\* downloadImage(u), its synchronous part: from the entry to the first await
Call(c, u) ==
    /\ call[c].pc = "idle"
    /\ IF c = 1 THEN TRUE ELSE call[c - 1].pc # "idle"
    /\ u \in UrlsOf(c)
    /\ LET r0 == [Idle EXCEPT !.url = u,
                              !.shouldDither = (env = "true"),
                              !.after = { d \in Calls : call[d].pc = "done" /\ call[d].url = u }]
           p == Filepath(u)
       IN  \E mkdirOk \in BOOLEAN :
             IF ~dirExists /\ ~mkdirOk
             THEN /\ Put(c, Catch(r0, "mkdir"))
                  /\ UNCHANGED dirExists
             ELSE /\ dirExists' = TRUE
                  /\ LET r1 == [r0 EXCEPT !.createdDir = ~dirExists,
                                          !.seen = IF ~ExistsSync(files, p) THEN "absent"
                                                   ELSE IF files[p].complete THEN "complete"
                                                   ELSE "partial"]
                     IN  IF TakesHitBranch(files, p)
                         THEN Put(c, [r1 EXCEPT !.pc = "placeholder"])
                         ELSE Put(c, [r1 EXCEPT !.pc = "fetch", !.fetches = @ + 1])
    /\ UNCHANGED <<env, files, lastWrite, ku, kout, dim, km>>

\* await fetch(url) settles, response.ok and response.body are tested and
\* await response.arrayBuffer() settles (no shared state is touched between
\* the two awaits); then, synchronously, the dither path writes the scratch
\* file and starts applyDithering, the plain path starts sharp(buffer)...toFile
FetchSettle(c) ==
    /\ call[c].pc = "fetch"
    /\ LET r == call[c]
           t == TempFilepath(r.url)
       IN  \E o \in {"reject", "notOk", "nullBody"} \cup Bytes :
             CASE o = "reject"   -> Put(c, Catch(r, "fetch")) /\ UNCHANGED files
               [] o = "notOk"    -> Put(c, Catch(r, "status")) /\ UNCHANGED files
               [] o = "nullBody" -> Put(c, Catch(r, "body")) /\ UNCHANGED files
               [] OTHER ->
                    IF r.shouldDither
                    THEN \E w \in {"ok", "failNone", "failPartial"} :
                           CASE w = "ok" ->
                                  /\ files' = [files EXCEPT ![t] = Raw(o, TRUE)]
                                  /\ Put(c, [r EXCEPT !.createdScratch = TRUE,
                                                      !.pc = "decode"])
                             [] w = "failNone" ->
                                  /\ UNCHANGED files
                                  /\ Put(c, Catch(r, "writeTemp"))
                             [] w = "failPartial" ->
                                  /\ files' = [files EXCEPT ![t] = Raw(o, FALSE)]
                                  /\ Put(c, Catch([r EXCEPT !.createdScratch = TRUE],
                                                  "writeTemp"))
                    ELSE /\ UNCHANGED files
                         /\ Put(c, [r EXCEPT !.buffer = o, !.pc = "toFile"])
    /\ UNCHANGED <<env, dirExists, lastWrite, ku, kout, dim, km>>

\* can sharp(inputPath) read an image header from the scratch file as it is now
Readable(f) == f.data \in {"image", "nodims"} /\ f.complete

\* metadata.width || 0, metadata.height || 0 of downloaded bytes that sharp
\* can open
OriginalDims(data) ==
    IF data = "nodims" THEN [width |-> 0, height |-> 0]
    ELSE [width |-> 1, height |-> 1]

\* faulty variant: the dimensions are not checked
DimensionsUnchecked(m) == FALSE

\* if (originalWidth === 0 || originalHeight === 0) throw
InvalidDimensions(m) == m.width = 0 \/ m.height = 0

\* applyDithering reads the scratch file: await image.metadata() and
\* await sharp(inputPath).resize(...).raw().toBuffer() settle (a failure of
\* either read ends in the same finally block; the failure is recorded as
\* "inputMissing" when the file is not there, as "invalidImage" when the
\* dimensions are rejected, as "decode" otherwise); palette, dithering and
\* quantization are synchronous, then toFile starts
Decode(c) ==
    /\ call[c].pc = "decode"
    /\ LET r == call[c]
           f == files[TempFilepath(r.url)]
       IN  \E ioOk \in BOOLEAN :
             IF Readable(f) /\ ioOk
             THEN IF InvalidDimensions(OriginalDims(f.data))
                  THEN Finally(c, r, files, "invalidImage")
                  ELSE Put(c, [r EXCEPT !.pc = "toFile"]) /\ UNCHANGED files
             ELSE Finally(c, r, files, IF ExistsSync(files, TempFilepath(r.url))
                                       THEN "decode" ELSE "inputMissing")
    /\ UNCHANGED <<env, dirExists, lastWrite, ku, kout, dim, km>>

\* toFile(filepath) opens the output, or fails before it does
ToFileBegin(c) ==
    /\ call[c].pc = "toFile"
    /\ LET r == call[c]
           p == Filepath(r.url)
       IN  \E ioOk \in BOOLEAN :
             IF r.buffer \in {"garbage", "nodims"} /\ ~r.shouldDither
             THEN Settle(c, r, files, "decode")
             ELSE IF ~ioOk
             THEN Settle(c, r, files, "encode")
             ELSE /\ files' = [files EXCEPT ![p] = Webp(@, c, FALSE)]
                  /\ Put(c, [r EXCEPT !.pc = "toFileEnd", !.wroteCache = TRUE])
    /\ UNCHANGED <<env, dirExists, lastWrite, ku, kout, dim, km>>

\* await ...toFile(filepath) settles
ToFileEnd(c) ==
    /\ call[c].pc = "toFileEnd"
    /\ LET r == call[c]
           p == Filepath(r.url)
       IN  \E ioOk \in BOOLEAN :
             IF ioOk
             THEN /\ Settle(c, r, [files EXCEPT ![p] = Webp(@, c, TRUE)], "none")
                  /\ lastWrite' = [lastWrite EXCEPT ![p] = c]
             ELSE /\ Settle(c, r, files, "encode")
                  /\ UNCHANGED lastWrite
    /\ UNCHANGED <<env, dirExists, ku, kout, dim, km>>

\* faulty variant: the placeholder is generated only once the cache file is
\* complete, the invocation waiting for the one that writes it
PlaceholderWaiting(c) ==
    /\ call[c].pc = "placeholder"
    /\ files[Filepath(call[c].url)].complete
    /\ LET r == call[c]
           f == files[Filepath(r.url)]
       IN  \E ioOk \in BOOLEAN :
             IF f.data = "webp" /\ f.complete /\ ioOk
             THEN Put(c, ReturnLocal(r, "blur"))
             ELSE Put(c, Catch(r, "placeholder"))
    /\ UNCHANGED <<env, dirExists, files, lastWrite, ku, kout, dim, km>>

\* await getImagePlaceholder(filepath) settles: fs.readFile, getPlaiceholder
Placeholder(c) ==
    /\ call[c].pc = "placeholder"
    /\ LET r == call[c]
           f == files[Filepath(r.url)]
       IN  \E ioOk \in BOOLEAN :
             IF f.data = "webp" /\ f.complete /\ ioOk
             THEN Put(c, ReturnLocal(r, "blur"))
             ELSE Put(c, Catch(r, "placeholder"))
    /\ UNCHANGED <<env, dirExists, files, lastWrite, ku, kout, dim, km>>

Next ==
    \/ SetEnv
    \/ \E c \in Calls, u \in Urls : Call(c, u)
    \/ \E c \in Calls : FetchSettle(c)
    \/ \E c \in Calls : Decode(c)
    \/ \E c \in Calls : ToFileBegin(c)
    \/ \E c \in Calls : ToFileEnd(c)
    \/ \E c \in Calls : Placeholder(c)

Spec == Init /\ [][Next]_vars

\* every awaited I/O step of an invocation eventually completes or fails
SpecFair ==
    /\ Spec
    /\ \A c \in Calls :
          /\ WF_vars(FetchSettle(c))
          /\ WF_vars(Decode(c))
          /\ WF_vars(ToFileBegin(c))
          /\ WF_vars(ToFileEnd(c))
          /\ WF_vars(Placeholder(c))

----------------------------------------------------------------------------
(* The key of a URL, as a function: the specification SpecKey draws two URLs *)
(* from all strings over a small alphabet and computes their keys            *)

Alphabet == {"a", "b", "?"}

AllUrls == UNION { [1..n -> Alphabet] : n \in 0..MaxUrlLen }

\* lines 295-303 of downloadImage: hash, filepath and fileURL of a URL
Key(url) == [hash |-> HashOf(url), filepath |-> Filepath(url), fileURL |-> FileURL(url)]

InitKey ==
    /\ env = "false"
    /\ dirExists = FALSE
    /\ files = [p \in Paths |-> Absent]
    /\ call = [c \in Calls |-> Idle]
    /\ lastWrite = [p \in Paths |-> 0]
    /\ ku \in AllUrls \X AllUrls
    /\ kout = <<>>
    /\ dim = NoDim
    /\ km = NoKm

ComputeKeys ==
    /\ kout = <<>>
    /\ kout' = <<Key(ku[1]), Key(ku[2])>>
    /\ UNCHANGED <<env, dirExists, files, call, lastWrite, ku, dim, km>>

NextKey == ComputeKeys

SpecKey == InitKey /\ [][NextKey]_vars

----------------------------------------------------------------------------
(* The dimensions of the output, as a function of the dimensions of the     *)
(* input: the specification SpecResize draws one image's width and height   *)
(* and runs the resize of the dither path or of the plain path on it        *)

MAX_WIDTH == 840

DimLow == 3
DimSpread == 2

\* widths and heights of the images: the smallest ones (0 stands for a
\* dimension the metadata does not give), those around MAX_WIDTH, and some
\* that are reduced (1680 x 1201 rounds at a half, 1681 x 1 rounds to zero)
Dims ==
    (0..DimLow) \cup ((MAX_WIDTH - DimSpread)..(MAX_WIDTH + DimSpread))
       \cup {1200, 1201, 1680, 1681, 5000}

\* Math.round(n / d) for n >= 0 and d > 0
MathRound(n, d) == (2 * n + d) \div (2 * d)

\* faulty variant: the height is truncated instead of rounded
TargetDimsTruncated(w, h) ==
    IF w > MAX_WIDTH THEN <<MAX_WIDTH, (h * MAX_WIDTH) \div w>> ELSE <<w, h>>

\* faulty variant: the longer dimension is capped
TargetDimsLonger(w, h) ==
    IF w >= h
    THEN IF w > MAX_WIDTH THEN <<MAX_WIDTH, MathRound(h * MAX_WIDTH, w)>> ELSE <<w, h>>
    ELSE IF h > MAX_WIDTH THEN <<MathRound(w * MAX_WIDTH, h), MAX_WIDTH>> ELSE <<w, h>>

\* applyDithering: targetWidth and targetHeight
TargetDims(w, h) ==
    IF w > MAX_WIDTH THEN <<MAX_WIDTH, MathRound(h * MAX_WIDTH, w)>> ELSE <<w, h>>

\* sharp's resize(840, null, {fit: 'inside', withoutEnlargement: true}) on
\* the plain path: the width is capped, the height follows the aspect ratio,
\* and sharp never shrinks an axis to 0
PlainDims(w, h) ==
    IF w > MAX_WIDTH
    THEN LET r == MathRound(h * MAX_WIDTH, w) IN <<MAX_WIDTH, IF r = 0 THEN 1 ELSE r>>
    ELSE <<w, h>>

InitResize ==
    /\ env = "false"
    /\ dirExists = FALSE
    /\ files = [p \in Paths |-> Absent]
    /\ call = [c \in Calls |-> Idle]
    /\ lastWrite = [p \in Paths |-> 0]
    /\ ku = <<>>
    /\ kout = <<>>
    /\ dim \in { [NoDim EXCEPT !.in = <<w, h>>] : w \in Dims, h \in Dims }
    /\ km = NoKm

\* applyDithering, as far as the dimensions go: the check of the metadata,
\* the target dimensions, sharp's resize (which rejects a height of 0), and
\* the output encoded with width = targetWidth and height = targetHeight
ResizeDither ==
    /\ dim.path = "none"
    /\ LET w == dim.in[1]
           h == dim.in[2]
           t == TargetDims(w, h)
       IN  dim' =
             IF InvalidDimensions([width |-> w, height |-> h])
             THEN [dim EXCEPT !.path = "dither", !.status = "InvalidImage"]
             ELSE IF t[2] = 0
             THEN [dim EXCEPT !.path = "dither", !.status = "error", !.target = t]
             ELSE [dim EXCEPT !.path = "dither", !.status = "ok", !.target = t, !.out = t]
    /\ UNCHANGED <<env, dirExists, files, call, lastWrite, ku, kout, km>>

\* the plain path: sharp(buffer).resize(840, null, ...).webp(...).toFile
ResizePlain ==
    /\ dim.path = "none"
    /\ LET w == dim.in[1]
           h == dim.in[2]
       IN  dim' =
             IF w = 0 \/ h = 0
             THEN [dim EXCEPT !.path = "plain", !.status = "error"]
             ELSE [dim EXCEPT !.path = "plain", !.status = "ok",
                              !.target = PlainDims(w, h), !.out = PlainDims(w, h)]
    /\ UNCHANGED <<env, dirExists, files, call, lastWrite, ku, kout, km>>

NextResize == ResizeDither \/ ResizePlain

SpecResize == InitResize /\ [][NextResize]_vars

----------------------------------------------------------------------------
(* The palette extractor and the quantizer, as functions: the specification *)
(* SpecPalette draws a raw buffer and a palette size, runs                  *)
(* extractPaletteFromImage on them step by step, and quantizes one pixel    *)
(* with the palette it returned                                             *)

MaxPixels == 3
MaxK == 2

SampleCap == 10000
maxIterations == 10

\* a channel read outside the buffer, or of no sample: undefined in the code
Undef == -1
\* the distance to a centroid with an undefined channel, and the initial
\* minDist; neither is a distance (distances are >= 0)
NaN == -2
Infinity == -3

\* the colours of the pixels, <<r, g, b>>
Colours == { <<0, 0, 0>>, <<255, 255, 255>>, <<100, 150, 200>> }

\* the raw buffers: up to MaxPixels pixels (alpha is not read by the extractor)
Buffers == UNION { [1..n -> Colours] : n \in 0..MaxPixels }

Min2(a, b) == IF a <= b THEN a ELSE b

\* sampleStep, for totalPixels > 0
SampleStep(totalPixels) == totalPixels \div Min2(SampleCap, totalPixels)

\* how often for (i = 0; i < totalPixels; i += sampleStep) runs its body:
\* once for each of i = 0, sampleStep, 2 * sampleStep, ... below totalPixels
NumSamples(totalPixels) ==
    IF totalPixels = 0 THEN 0
    ELSE (totalPixels + SampleStep(totalPixels) - 1) \div SampleStep(totalPixels)

\* the samples: for (i = 0; i < totalPixels; i += sampleStep); no sample
\* when totalPixels is 0
CollectSamples(rawBuffer, totalPixels) ==
    IF totalPixels = 0 THEN <<>>
    ELSE LET step == SampleStep(totalPixels)
             n    == NumSamples(totalPixels)
         IN  [j \in 1..n |-> rawBuffer[(j - 1) * step + 1]]

\* the square of the distance of the code (Math.sqrt is increasing and exact
\* enough to keep distinct sums of squares of bytes apart, so comparing the
\* squares is comparing the distances); NaN when a channel is undefined
Dist(p, q) ==
    IF \E i \in 1..3 : p[i] = Undef \/ q[i] = Undef THEN NaN
    ELSE (p[1] - q[1]) * (p[1] - q[1]) + (p[2] - q[2]) * (p[2] - q[2])
            + (p[3] - q[3]) * (p[3] - q[3])

\* dist < minDist
Less(dist, minDist) == dist # NaN /\ (minDist = Infinity \/ dist < minDist)

\* faulty variant: a centroid at the same distance replaces the earlier one
RECURSIVE BestClusterLast(_, _, _, _, _)
BestClusterLast(sample, centroids, ci, minDist, best) ==
    IF ci > Len(centroids) THEN best
    ELSE LET dist == Dist(sample, centroids[ci]) IN
         IF dist # NaN /\ (minDist = Infinity \/ dist <= minDist)
         THEN BestClusterLast(sample, centroids, ci + 1, dist, ci)
         ELSE BestClusterLast(sample, centroids, ci + 1, minDist, best)

\* centroids.forEach((centroid, ci) => ...) from centroid ci on: the index of
\* the nearest centroid (indices from 1 here, from 0 in the code)
RECURSIVE BestCluster(_, _, _, _, _)
BestCluster(sample, centroids, ci, minDist, best) ==
    IF ci > Len(centroids) THEN best
    ELSE LET dist == Dist(sample, centroids[ci]) IN
         IF Less(dist, minDist)
         THEN BestCluster(sample, centroids, ci + 1, dist, ci)
         ELSE BestCluster(sample, centroids, ci + 1, minDist, best)

\* clusters: the indices of the samples assigned to each centroid
Clusters(samples, centroids) ==
    [ci \in 1..Len(centroids) |->
        { idx \in 1..Len(samples) :
             BestCluster(samples[idx], centroids, 1, Infinity, 1) = ci }]

\* the sum of channel ch over the samples of a cluster
Sum(samples, cluster, ch) ==
    LET sum[c \in SUBSET (1..Len(samples))] ==
            IF c = {} THEN 0
            ELSE LET idx == CHOOSE i \in c : TRUE IN
                 samples[idx][ch] + sum[c \ {idx}]
    IN  sum[cluster]

\* faulty variant: a centroid without samples is reseeded with the first sample
UpdateCentroidsReseeding(samples, centroids) ==
    LET clusters == Clusters(samples, centroids) IN
    [ci \in 1..Len(centroids) |->
        IF clusters[ci] # {}
        THEN [ch \in 1..3 |->
                 MathRound(Sum(samples, clusters[ci], ch), Cardinality(clusters[ci]))]
        ELSE IF samples # <<>> THEN samples[1] ELSE centroids[ci]]

\* the centroids after the update of one round
UpdateCentroids(samples, centroids) ==
    LET update[clusters \in [1..Len(centroids) -> SUBSET (1..Len(samples))]] ==
            [ci \in 1..Len(centroids) |->
                IF clusters[ci] # {}
                THEN [ch \in 1..3 |->
                         MathRound(Sum(samples, clusters[ci], ch),
                                   Cardinality(clusters[ci]))]
                ELSE centroids[ci]]
    IN  update[Clusters(samples, centroids)]

\* a 32-bit value of a Uint32Array, as its two 16-bit halves
\* <<a * 256 + r, g * 256 + b>>; the operands and results of the bitwise
\* operators are signed 32-bit integers
\* undefined is 0 as an operand of << and |
ToInt32(v) == IF v = Undef THEN 0 ELSE v

\* x >>> 0, and a number stored in a Uint32Array: x modulo 2^32
Unsigned(x) == <<(x \div 65536) % 65536, x % 65536>>

\* the signed 32-bit integer an element of a Uint32Array is read as by >>
Signed(u) ==
    IF u[1] >= 32768 THEN (u[1] - 65536) * 65536 + u[2] ELSE u[1] * 65536 + u[2]

\* x << n for a byte x: the low 32 bits of x * 2^n, read as signed
Shl(x, n) ==
    IF n >= 16 THEN Signed(<<(x * 2^(n - 16)) % 65536, 0>>)
    ELSE Signed(Unsigned(x * 2^n))

\* x >> n: the arithmetic shift
Shr(x, n) == x \div 2^n

\* the bitwise or of two numbers of n bits, bit by bit from the lowest
OrBits(x, y, n) ==
    LET or[a \in Nat, b \in Nat, m \in Nat] ==
            IF m = 0 THEN 0
            ELSE (IF a % 2 = 1 \/ b % 2 = 1 THEN 1 ELSE 0)
                    + 2 * or[a \div 2, b \div 2, m - 1]
    IN  or[x, y, n]

\* x | y
BitOr(x, y) ==
    LET or[a \in Int, b \in Int] ==
            Signed(<<OrBits(Unsigned(a)[1], Unsigned(b)[1], 16),
                     OrBits(Unsigned(a)[2], Unsigned(b)[2], 16)>>)
    IN  or[x, y]

\* x & 0xff
And8(x) == x % 256

\* faulty variant: red and blue change places
AssembleBGR(a, r, g, b) ==
    Unsigned(BitOr(BitOr(BitOr(Shl(a, 24), Shl(b, 16)), Shl(g, 8)), r))

\* ((a << 24) | (r << 16) | (g << 8) | b) >>> 0
Assemble(a, r, g, b) ==
    Unsigned(BitOr(BitOr(BitOr(Shl(a, 24), Shl(r, 16)), Shl(g, 8)), b))

\* faulty variant: the alpha byte is left 0
PackTransparent(c) ==
    <<ToInt32(c[1]), ToInt32(c[2]) * 256 + ToInt32(c[3])>>

\* ((0xff << 24) | (c.r << 16) | (c.g << 8) | c.b) >>> 0
Pack(c) == Assemble(255, ToInt32(c[1]), ToInt32(c[2]), ToInt32(c[3]))

\* (x >> 24) & 0xff, (x >> 16) & 0xff, (x >> 8) & 0xff, x & 0xff
Alpha(x) == And8(Shr(Signed(x), 24))
Red(x) == And8(Shr(Signed(x), 16))
Green(x) == And8(Shr(Signed(x), 8))
Blue(x) == And8(Signed(x))

\* the pixels the quantizer is given (the output of the dithering)
\* among them a transparent pixel, and <<0, 75, 125>>, which is as far from
\* <<0, 0, 0>> as from <<100, 150, 200>>
DitheredPixels ==
    { Pack(c) : c \in Colours }
       \cup { <<255 * 256 + 50, 60 * 256 + 70>>, <<0, 0>>, <<255 * 256, 75 * 256 + 125>> }

\* faulty variant: a palette colour at the same distance replaces the earlier one
RECURSIVE NearestLast(_, _, _, _, _)
NearestLast(pixel, palette, i, minDist, nearestColor) ==
    IF i > Len(palette) THEN nearestColor
    ELSE LET dist == Dist(<<Red(pixel), Green(pixel), Blue(pixel)>>,
                          <<Red(palette[i]), Green(palette[i]), Blue(palette[i])>>)
         IN  IF Less(dist, minDist) \/ dist = minDist
             THEN NearestLast(pixel, palette, i + 1, dist, palette[i])
             ELSE NearestLast(pixel, palette, i + 1, minDist, nearestColor)

\* faulty variant: the nearest colour is blended with the pixel
RECURSIVE NearestBlended(_, _, _, _, _)
NearestBlended(pixel, palette, i, minDist, nearestColor) ==
    IF i > Len(palette) THEN nearestColor
    ELSE LET dist == Dist(<<Red(pixel), Green(pixel), Blue(pixel)>>,
                          <<Red(palette[i]), Green(palette[i]), Blue(palette[i])>>)
         IN  IF Less(dist, minDist)
             THEN NearestBlended(pixel, palette, i + 1, dist,
                                 <<palette[i][1], pixel[2]>>)
             ELSE NearestBlended(pixel, palette, i + 1, minDist, nearestColor)

\* for (const paletteColor of palette) ... from entry i on
RECURSIVE Nearest(_, _, _, _, _)
Nearest(pixel, palette, i, minDist, nearestColor) ==
    IF i > Len(palette) THEN nearestColor
    ELSE LET dist == Dist(<<Red(pixel), Green(pixel), Blue(pixel)>>,
                          <<Red(palette[i]), Green(palette[i]), Blue(palette[i])>>)
         IN  IF Less(dist, minDist)
             THEN Nearest(pixel, palette, i + 1, dist, palette[i])
             ELSE Nearest(pixel, palette, i + 1, minDist, nearestColor)

\* quantizedData[i]: nearestColor starts as palette[0], which is undefined
\* for an empty palette and is then stored as 0
Quantized(pixel, palette) ==
    IF palette = <<>> THEN <<0, 0>>
    ELSE Nearest(pixel, palette, 1, Infinity, palette[1])

\* the four bytes written to rgbaBuffer for a quantized pixel
ToRGBA(argb) == <<Red(argb), Green(argb), Blue(argb), Alpha(argb)>>

InitPalette ==
    /\ env = "false"
    /\ dirExists = FALSE
    /\ files = [p \in Paths |-> Absent]
    /\ call = [c \in Calls |-> Idle]
    /\ lastWrite = [p \in Paths |-> 0]
    /\ ku = <<>>
    /\ kout = <<>>
    /\ dim = NoDim
    /\ km \in { [phase |-> "called", rawBuffer |-> b, numColors |-> k] :
                  b \in Buffers, k \in 0..MaxK }

\* the samples are collected and the centroids are initialized with random
\* samples; without samples, samples[idx] is undefined and the centroid has
\* no channels
Sample ==
    /\ km.phase = "called"
    /\ LET samples == CollectSamples(km.rawBuffer, Len(km.rawBuffer))
           n == Len(samples)
       IN  \E idx \in [1..km.numColors -> (IF n = 0 THEN {0} ELSE 0..(n - 1))] :
             km' = [phase |-> "kmeans", rawBuffer |-> km.rawBuffer,
                    numColors |-> km.numColors, samples |-> samples,
                    centroids |-> [i \in 1..km.numColors |->
                                      IF n = 0 THEN <<Undef, Undef, Undef>>
                                      ELSE samples[idx[i] + 1]],
                    clusters |-> <<>>,
                    iter |-> 0, palette |-> <<>>, pixel |-> <<0, 0>>,
                    quantized |-> <<0, 0>>, rgba |-> <<>>]
    /\ UNCHANGED <<env, dirExists, files, call, lastWrite, ku, kout, dim>>

\* faulty variant: the loop stops as soon as a round changes no centroid
RoundUntilStable ==
    /\ km.phase = "kmeans"
    /\ km.iter < maxIterations
    /\ km' = IF km.numColors = 0 /\ km.samples # <<>>
             THEN [km EXCEPT !.phase = "threw"]
             ELSE [km EXCEPT !.clusters = Clusters(km.samples, km.centroids),
                             !.centroids = UpdateCentroids(km.samples, km.centroids),
                             !.iter = IF UpdateCentroids(km.samples, km.centroids) = km.centroids
                                      THEN maxIterations ELSE km.iter + 1]
    /\ UNCHANGED <<env, dirExists, files, call, lastWrite, ku, kout, dim>>

\* one round of k-means (clusters keeps the assignment of the round); with no
\* centroid, clusters is empty and clusters[bestCluster].push throws for the
\* first sample
Round ==
    /\ km.phase = "kmeans"
    /\ km.iter < maxIterations
    /\ km' = IF km.numColors = 0 /\ km.samples # <<>>
             THEN [km EXCEPT !.phase = "threw"]
             ELSE [km EXCEPT !.clusters = Clusters(km.samples, km.centroids),
                             !.centroids = UpdateCentroids(km.samples, km.centroids),
                             !.iter = km.iter + 1]
    /\ UNCHANGED <<env, dirExists, files, call, lastWrite, ku, kout, dim>>

\* return centroids.map(...)
ReturnPalette ==
    /\ km.phase = "kmeans"
    /\ km.iter = maxIterations
    /\ km' = [km EXCEPT !.phase = "returned",
                        !.palette = [i \in 1..Len(km.centroids) |-> Pack(km.centroids[i])]]
    /\ UNCHANGED <<env, dirExists, files, call, lastWrite, ku, kout, dim>>

\* the quantizer on one pixel of the dithered buffer, and the bytes encoded
\* for it
Quantize ==
    /\ km.phase = "returned"
    /\ \E pixel \in DitheredPixels :
          LET q == Quantized(pixel, km.palette) IN
          km' = [km EXCEPT !.phase = "quantized", !.pixel = pixel,
                           !.quantized = q, !.rgba = ToRGBA(q)]
    /\ UNCHANGED <<env, dirExists, files, call, lastWrite, ku, kout, dim>>

NextPalette == Sample \/ Round \/ ReturnPalette \/ Quantize

SpecPalette == InitPalette /\ [][NextPalette]_vars

\* the extractor is synchronous code: once called it runs to its end
SpecPaletteFair == SpecPalette /\ WF_vars(NextPalette)

----------------------------------------------------------------------------
(* The sampling of the palette extractor on buffers of any size: the        *)
(* specification SpecSample draws the number of pixels and counts the       *)
(* samples the loop collects                                                *)

PixLow == 60

\* the numbers of pixels: the small ones, those around the sample cap and
\* around twice the cap, and an image of 840 x 600
TotalPixels ==
    (1..PixLow)
       \cup ((SampleCap - 1)..(SampleCap + 1))
       \cup ((2 * SampleCap - 1)..(2 * SampleCap + 1))
       \cup {840 * 600}

InitSample ==
    /\ env = "false"
    /\ dirExists = FALSE
    /\ files = [p \in Paths |-> Absent]
    /\ call = [c \in Calls |-> Idle]
    /\ lastWrite = [p \in Paths |-> 0]
    /\ ku = <<>>
    /\ kout = <<>>
    /\ dim = NoDim
    /\ km \in { [phase |-> "entered", totalPixels |-> t] : t \in TotalPixels }

\* lines 55-67: sampleStep is computed and the loop collects the samples
CountSamples ==
    /\ km.phase = "entered"
    /\ km' = [phase |-> "sampled", totalPixels |-> km.totalPixels,
              sampleStep |-> SampleStep(km.totalPixels),
              numSamples |-> NumSamples(km.totalPixels)]
    /\ UNCHANGED <<env, dirExists, files, call, lastWrite, ku, kout, dim>>

NextSample == CountSamples

SpecSample == InitSample /\ [][NextSample]_vars

----------------------------------------------------------------------------
(* The channel packing: a pixel's four bytes to a 32-bit ARGB value and     *)
(* back, and a centroid to an opaque ARGB value                             *)

ByteSpread == 1

\* the bytes around 0, around the sign bit of a byte, and around 255
ByteSample ==
    (0..ByteSpread) \cup ((128 - ByteSpread)..(127 + ByteSpread))
       \cup ((255 - ByteSpread)..255)

\* the pixels <<r, g, b, a>>: every combination of the sampled bytes, and
\* every byte in each channel with the other channels all 0 or all 255
Quads ==
    { <<r, g, b, a>> : r \in ByteSample, g \in ByteSample,
                       b \in ByteSample, a \in ByteSample }
       \cup { [i \in 1..4 |-> IF i = ch THEN v ELSE rest] :
                 ch \in 1..4, v \in 0..255, rest \in {0, 255} }

InitPack ==
    /\ env = "false"
    /\ dirExists = FALSE
    /\ files = [p \in Paths |-> Absent]
    /\ call = [c \in Calls |-> Idle]
    /\ lastWrite = [p \in Paths |-> 0]
    /\ ku = <<>>
    /\ kout = <<>>
    /\ dim = NoDim
    /\ km \in { [phase |-> "rgba", rawBuffer |-> q] : q \in Quads }

\* argbData[i] = ((a << 24) | (r << 16) | (g << 8) | b) >>> 0
ToARGB ==
    /\ km.phase = "rgba"
    /\ km' = [phase |-> "argb", rawBuffer |-> km.rawBuffer,
              argb |-> Assemble(km.rawBuffer[4], km.rawBuffer[1],
                                km.rawBuffer[2], km.rawBuffer[3])]
    /\ UNCHANGED <<env, dirExists, files, call, lastWrite, ku, kout, dim>>

\* a centroid of the pixel's red, green and blue becomes a palette colour
PackCentroid ==
    /\ km.phase = "rgba"
    /\ km' = [phase |-> "palette", rawBuffer |-> km.rawBuffer,
              argb |-> Pack(<<km.rawBuffer[1], km.rawBuffer[2], km.rawBuffer[3]>>)]
    /\ UNCHANGED <<env, dirExists, files, call, lastWrite, ku, kout, dim>>

\* rgbaBuffer[i * 4 ..] of a 32-bit value (a pixel that dithering and
\* quantizing left as it was, or a palette colour)
FromARGB ==
    /\ km.phase \in {"argb", "palette"}
    /\ km' = [phase |-> "rgbaOut", rawBuffer |-> km.rawBuffer, argb |-> km.argb,
              from |-> km.phase, rgba |-> ToRGBA(km.argb)]
    /\ UNCHANGED <<env, dirExists, files, call, lastWrite, ku, kout, dim>>

NextPack == ToARGB \/ PackCentroid \/ FromARGB

SpecPack == InitPack /\ [][NextPack]_vars

----------------------------------------------------------------------------
(* Vocabulary of the properties *)

Done(c) == call[c].pc = "done"

Fallback(c) == [url |-> call[c].url, blurDataURL |-> NoBlur]

Prefixes(u) == { SubSeq(u, 1, n) : n \in 0..Len(u) }

HasQuery(s) == \E i \in 1..Len(s) : s[i] = "?"

\* the part of u before its first '?': the prefix without '?' that is all of
\* u or is followed by '?'
BeforeFirstQuery(u) ==
    CHOOSE p \in Prefixes(u) :
        /\ ~HasQuery(p)
        /\ IF p = u THEN TRUE ELSE u[Len(p) + 1] = "?"

\* `/images/{md5 of the URL without its query string}.webp`
LocalReference(u) == <<"/images/">> \o Md5(BeforeFirstQuery(u)) \o <<".webp">>

CachePathOf(u) == <<"cwd/public/images/">> \o Md5(BeforeFirstQuery(u)) \o <<".webp">>

ScratchPathOf(u) ==
    <<"cwd/public/images/">> \o <<"temp_">> \o Md5(BeforeFirstQuery(u)) \o <<".tmp">>

CachePaths == { CachePathOf(u) : u \in Urls }

Started == { c \in Calls : call[c].pc # "idle" }

----------------------------------------------------------------------------
(* C1 *)

C1FailurePoints ==
    {"mkdir", "fetch", "status", "body", "writeTemp", "decode", "inputMissing",
     "invalidImage", "encode", "unlink"}

\* C1: downloadImage never propagates an exception: no invocation ends by
\* throwing, and an invocation that failed at directory creation, at the
\* fetch, at the status or body test, at the scratch write, at decoding, at
\* encoding or at the scratch deletion has returned the input URL unchanged
\* with no blurDataURL.
C1_NeverPropagates ==
    \A c \in Calls :
        /\ ~call[c].threw
        /\ (Done(c) /\ call[c].failure \in C1FailurePoints)
              => call[c].result = Fallback(c)

\* an invocation whose unlinkSync threw inside the finally block has returned,
\* and another one failed at an earlier point
C1_Witness ==
    \E c, d \in Calls :
        /\ Done(c) /\ call[c].failure = "unlink"
        /\ Done(d) /\ call[d].failure \in {"status", "encode", "mkdir"}

----------------------------------------------------------------------------
(* C2 *)

\* C2: in every returned result url is populated and is either the local
\* reference /images/{md5 of the URL before its first '?'}.webp or the
\* input URL verbatim.
C2_UrlIsLocalOrInput ==
    \A c \in Calls :
        Done(c) => /\ call[c].result.url # <<>>
                   /\ call[c].result.url \in {LocalReference(call[c].url), call[c].url}

\* one invocation has returned the local reference, another its input URL,
\* which carries a query string
C2_Witness ==
    \E c, d \in Calls :
        /\ Done(c) /\ call[c].result.url = LocalReference(call[c].url)
        /\ Done(d) /\ call[d].result.url = call[d].url /\ HasQuery(call[d].url)

----------------------------------------------------------------------------
(* C3 *)

\* C3: a failure of placeholder generation does not fail the operation: the
\* invocation still returns the local url, with blurDataURL absent.
C3_PlaceholderBestEffort ==
    \A c \in Calls :
        (Done(c) /\ call[c].failure = "placeholder")
           => call[c].result = [url |-> LocalReference(call[c].url), blurDataURL |-> NoBlur]

----------------------------------------------------------------------------
(* C4 *)

\* C4: two URLs that are equal up to the first '?' get the identical hash,
\* the identical cache file path and the identical local url.
C4_QueryDoesNotChangeKey ==
    (kout # <<>> /\ BeforeFirstQuery(ku[1]) = BeforeFirstQuery(ku[2]))
       => kout[1] = kout[2]

\* the keys of two different URLs with the same non-empty part before the
\* first '?' and different query strings have been computed
C4_Witness ==
    /\ kout # <<>>
    /\ ku[1] # ku[2]
    /\ HasQuery(ku[1]) /\ HasQuery(ku[2])
    /\ BeforeFirstQuery(ku[1]) = BeforeFirstQuery(ku[2])
    /\ BeforeFirstQuery(ku[1]) # <<>>

----------------------------------------------------------------------------
(* C5 *)

\* C5: idempotence: an invocation that starts after an invocation of the same
\* URL has returned, and finds the cache file present, performs no fetch and
\* returns the url the first invocation returned.
C5_Idempotent ==
    \A c, d \in Calls :
        (Done(d) /\ c \in call[d].after /\ call[d].seen # "absent")
           => /\ call[d].fetches = 0
              /\ call[d].result.url = call[c].result.url

----------------------------------------------------------------------------
(* C6 *)

\* C6 as stated: after a non-success status or a null body the invocation
\* has returned the original URL without blurDataURL and has created no cache
\* file, no scratch file and no directory.
C6_NoFilesystemWrite ==
    \A c \in Calls :
        (Done(c) /\ call[c].failure \in {"status", "body"})
           => /\ call[c].result = Fallback(c)
              /\ ~call[c].createdDir
              /\ ~call[c].createdScratch
              /\ ~call[c].wroteCache

\* C6 as amended: after a non-success status or a null body the invocation
\* has returned the original URL without blurDataURL, has fetched once and has
\* written no cache file and no scratch file (the directory public/images is
\* created before the fetch when it was missing).
C6_NoFileWritten ==
    \A c \in Calls :
        (Done(c) /\ call[c].failure \in {"status", "body"})
           => /\ call[c].result = Fallback(c)
              /\ call[c].seen = "absent"
              /\ call[c].fetches = 1
              /\ ~call[c].createdScratch
              /\ ~call[c].wroteCache
              /\ files[CachePathOf(call[c].url)] # Absent
                    => \E d \in Calls \ {c} : call[d].wroteCache
              /\ files[ScratchPathOf(call[c].url)] # Absent
                    => \E d \in Calls \ {c} : call[d].createdScratch

\* an invocation got a non-success status after it had created the directory,
\* and nothing is in the store
C6_Witness ==
    \E c \in Calls :
        /\ Done(c) /\ call[c].failure = "status"
        /\ call[c].createdDir
        /\ \A p \in Paths : files[p] = Absent

----------------------------------------------------------------------------
(* C7 *)

\* every invocation that uses the scratch path of u has returned or has not
\* started, and none of them failed in unlinkSync
Quiet(u) ==
    \A d \in Calls :
        (call[d].pc # "idle" /\ ScratchPathOf(call[d].url) = ScratchPathOf(u))
           => Done(d) /\ call[d].failure # "unlink"

\* C7: the scratch file is deleted on every exit path: when an invocation
\* that created it has returned (and no invocation of the same key is still
\* running or failed to delete it), no scratch file of that key exists.
C7_ScratchDeleted ==
    \A c \in Calls :
        (Done(c) /\ call[c].createdScratch /\ Quiet(call[c].url))
           => files[ScratchPathOf(call[c].url)] = Absent

----------------------------------------------------------------------------
(* C8 *)

\* C8 as stated: once the cache file of a key exists, no later step writes or
\* removes it; the only change is the creating invocation completing its own
\* write.
C8_NeverMutated ==
    [][\A p \in CachePaths :
          files[p] # Absent =>
             \/ files'[p] = files[p]
             \/ /\ ~files[p].complete
                /\ files'[p] = [files[p] EXCEPT !.complete = TRUE]]_vars

\* C8 as amended: a cache file is never removed, and it is written only by
\* invocations whose existence check found no file: an invocation that found
\* the file never writes it.
C8_WrittenOnlyAfterMiss ==
    [][/\ \A p \in CachePaths :
             files[p] # Absent =>
                /\ files'[p] # Absent
                /\ files'[p] # files[p] => call'[files'[p].by].seen = "absent"
       /\ \A c \in Calls :
             call'[c].seen \in {"partial", "complete"} => ~call'[c].wroteCache]_vars

\* an invocation found the complete file another invocation had written, and
\* has returned it
C8_Witness ==
    \E c, d \in Calls :
        /\ c # d
        /\ Done(c) /\ call[c].seen = "complete" /\ call[c].failure = "none"
        /\ files[CachePathOf(call[c].url)] = [data |-> "webp", by |-> d, complete |-> TRUE]

----------------------------------------------------------------------------
(* C9 *)

\* C9: the cache file is written atomically: no invocation finds the cache
\* path existing while the content is incomplete.
C9_AtomicWrite ==
    \A c \in Calls : call[c].seen # "partial"

----------------------------------------------------------------------------
(* C10 *)

Writers(p) == { c \in Calls : call[c].wroteCache /\ CachePathOf(call[c].url) = p }

----------------------------------------------------------------------------
(* C11 *)

\* the invocation is about to decode its scratch file and the file is gone
ScratchGone(c) ==
    /\ call[c].pc = "decode"
    /\ ~ExistsSync(files, ScratchPathOf(call[c].url))

\* C11: in dither mode two invocations of one key share the scratch path and
\* can collide: when an invocation reaches its decode step with the scratch
\* file gone, another invocation of the same key has created and deleted it,
\* and the step can only end the invocation with the original URL.
C11_ScratchCollision ==
    [][/\ \A c \in Calls :
             ScratchGone(c) =>
                /\ call[c].shouldDither /\ call[c].createdScratch
                /\ \E d \in Calls \ {c} :
                      /\ ScratchPathOf(call[d].url) = ScratchPathOf(call[c].url)
                      /\ call[d].shouldDither /\ call[d].createdScratch
                      /\ call[d].pc \in {"toFile", "toFileEnd", "placeholder", "done"}
                /\ call'[c] # call[c] =>
                      /\ Done(c)'
                      /\ call'[c].failure = "inputMissing"
                      /\ call'[c].result = Fallback(c)'
       /\ \A c \in Calls :
             call'[c].failure = "inputMissing"
                => call[c].failure = "inputMissing" \/ ScratchGone(c)]_vars

\* an invocation that fetched and wrote its scratch file has found it gone
\* at its decode step and has returned the original URL, and the other
\* invocation of the same URL, which deleted it, has returned the local url
\* without any failure
C11_Witness ==
    \E c, d \in Calls :
        /\ c # d
        /\ call[c].url = call[d].url
        /\ Done(c) /\ call[c].failure = "inputMissing" /\ call[c].result = Fallback(c)
        /\ call[c].createdScratch /\ call[c].fetches = 1
        /\ Done(d) /\ call[d].failure = "none" /\ call[d].createdScratch
        /\ call[d].result.url = LocalReference(call[d].url)

----------------------------------------------------------------------------
(* C12 *)

\* C12: the dithering mode is decided once per process: all invocations that
\* have started take the same branch.
C12_ModeDecidedOnce ==
    \A c, d \in Calls :
        (call[c].pc # "idle" /\ call[d].pc # "idle")
           => call[c].shouldDither = call[d].shouldDither

----------------------------------------------------------------------------
(* C13 *)

\* invocation d found the incomplete cache file that the failed write of
\* invocation c left behind, took the hit branch without a fetch and fell
\* back to the original URL
FailedBecauseOf(d, c) ==
    LET f == files[CachePathOf(call[d].url)] IN
    /\ Done(c) /\ call[c].failure = "encode"
    /\ f.by = c /\ f # Absent /\ ~f.complete
    /\ Done(d) /\ call[d].seen = "partial" /\ call[d].fetches = 0
    /\ call[d].result = Fallback(d)

\* C13: invocations for distinct URLs are independent: no invocation throws
\* into the combined await, and no invocation fails because another one
\* failed.
C13_Independent ==
    \A c, d \in Calls :
        (c # d /\ call[c].pc # "idle" /\ call[d].pc # "idle"
              /\ call[c].url # call[d].url)
           => /\ ~call[c].threw /\ ~call[d].threw
              /\ ~FailedBecauseOf(d, c)

\* what holds of the code: an invocation whose key no other started
\* invocation shares finds its files as it left them, whatever the others do
C13_DistinctKeysIndependent ==
    \A d \in Started :
        LET u == call[d].url IN
        (\A c \in Started \ {d} : CachePathOf(call[c].url) # CachePathOf(u))
           => /\ ~call[d].threw
              /\ call[d].seen \in {"none", "absent"}
              /\ call[d].pc = "decode"
                    => /\ files[ScratchPathOf(u)] # Absent
                       /\ files[ScratchPathOf(u)].complete
              /\ call[d].pc = "toFileEnd"
                    => files[CachePathOf(u)] = Webp(Absent, d, FALSE)
              /\ call[d].pc = "placeholder"
                    => files[CachePathOf(u)] = Webp(Absent, d, TRUE)

----------------------------------------------------------------------------
(* C17 *)

\* the steps of one invocation, as pairs of positions: KeyComputed is "idle",
\* CacheMiss "fetch", Downloaded the end of the fetch step, DitherPath
\* "decode" and the write after it, PlainPath the write alone, Persisted the
\* end of "toFileEnd", placeholder generation "placeholder"
C17Edges ==
    { <<"idle", "placeholder">>, <<"idle", "fetch">>, <<"idle", "done">>,
      <<"fetch", "decode">>, <<"fetch", "toFile">>, <<"fetch", "done">>,
      <<"decode", "toFile">>, <<"decode", "done">>,
      <<"toFile", "toFileEnd">>, <<"toFile", "done">>,
      <<"toFileEnd", "placeholder">>, <<"toFileEnd", "done">>,
      <<"placeholder", "done">> }

\* C17: every invocation follows the state machine: the fetch happens only
\* after a miss, exactly one of the two paths runs per miss, the cache file
\* is persisted by the invocation before its placeholder generation starts,
\* the placeholder is generated from the cache file, and the invocation ends
\* in exactly one of Done (local url) and FallbackOriginal.
C17_StateMachine ==
    [][\A c \in Calls :
          LET r == call[c]
              s == call'[c]
              p == CachePathOf(s.url)
          IN
          r # s =>
             /\ <<r.pc, s.pc>> \in C17Edges
             \* the fetch only after a miss
             /\ s.pc = "fetch" => s.seen = "absent" /\ s.fetches = 1
             /\ s.fetches = 1 => s.seen = "absent"
             /\ (r.pc = "idle" /\ s.pc = "placeholder")
                   => s.seen \in {"partial", "complete"} /\ s.fetches = 0
             \* exactly one path per miss
             /\ s.pc = "decode" => s.shouldDither /\ s.createdScratch /\ s.buffer = "none"
             /\ (r.pc = "fetch" /\ s.pc = "toFile")
                   => ~s.shouldDither /\ ~s.createdScratch /\ s.buffer \in Bytes
             /\ s.createdScratch => s.shouldDither
             /\ (r.pc = "decode" /\ s.pc = "toFile") => s.shouldDither
             \* persisted before placeholder generation starts
             /\ (r.pc = "toFileEnd" /\ s.pc = "placeholder")
                   => /\ s.wroteCache
                      /\ files'[p] = [data |-> "webp", by |-> c, complete |-> TRUE]
             \* the placeholder is generated from the cache file
             /\ (r.pc = "placeholder" /\ s.failure = "none")
                   => /\ files[p].data = "webp" /\ files[p].complete
                      /\ s.result.blurDataURL # NoBlur
             \* exactly one terminal state
             /\ s.pc = "done" =>
                   \/ s.failure = "none" /\ r.pc = "placeholder"
                         /\ s.result.url = LocalReference(s.url)
                   \/ s.failure # "none" /\ s.result = [url |-> s.url, blurDataURL |-> NoBlur]
             /\ r.pc # "done"]_vars

\* one invocation has gone through the miss and the dither path to Done while
\* another ended in FallbackOriginal
C17_Witness ==
    \E c, d \in Calls :
        /\ Done(c) /\ call[c].failure = "none" /\ call[c].seen = "absent"
        /\ call[c].createdScratch /\ call[c].wroteCache
        /\ call[c].result.blurDataURL # NoBlur
        /\ Done(d) /\ call[d].failure = "encode" /\ ~call[d].shouldDither

----------------------------------------------------------------------------
(* C18 *)

\* the invocation found the cache file of its key
Hit(r) == r.seen \in {"partial", "complete"}

\* C18: on a cache hit the invocation performs no fetch, creates no scratch
\* file, does not write the cache file, attempts the placeholder, and returns
\* the local url of the key.
C18_HitSkipsWork ==
    \A c \in Calls :
        Hit(call[c]) =>
           /\ call[c].fetches = 0
           /\ ~call[c].createdScratch
           /\ ~call[c].wroteCache
           /\ call[c].pc \in {"placeholder", "done"}
           /\ Done(c) => call[c].result.url = LocalReference(call[c].url)

\* what holds of the code: no step of an invocation that hit changes a file,
\* and the invocation fetches nothing; only the returned url can be the
\* original one, when the placeholder failed
C18_HitFrame ==
    [][\A c \in Calls :
          (Hit(call'[c]) /\ call'[c] # call[c]) =>
             /\ files' = files
             /\ call'[c].fetches = 0
             /\ ~call'[c].createdScratch /\ ~call'[c].wroteCache
             /\ call'[c].pc \in {"placeholder", "done"}
             /\ call'[c].failure \in {"none", "placeholder"}]_vars

----------------------------------------------------------------------------
(* C20 *)

\* the scratch file of the invocation holds an image without dimensions
NoDimensions(c) ==
    files[ScratchPathOf(call[c].url)] = [data |-> "nodims", by |-> 0, complete |-> TRUE]

\* C20: on the dither path, when the width or height of the downloaded bytes
\* is missing or zero, the decode step fails before any pixel processing and
\* before any write of the cache file: the invocation returns the original
\* URL, has written no cache file, and the scratch file is deleted (unless
\* unlinkSync itself throws).
C20_InvalidImage ==
    [][\A c \in Calls :
          LET r == call[c]
              s == call'[c]
              t == ScratchPathOf(r.url)
          IN
          /\ (r.pc = "decode" /\ NoDimensions(c) /\ s # r) =>
                /\ s.pc = "done"
                /\ s.failure \in {"invalidImage", "decode", "unlink"}
                /\ s.result = [url |-> r.url, blurDataURL |-> NoBlur]
                /\ ~s.wroteCache
                /\ files'[CachePathOf(r.url)] = files[CachePathOf(r.url)]
                /\ files'[t] = IF s.failure = "unlink" THEN files[t] ELSE Absent
          /\ (s.failure = "invalidImage" /\ s # r) =>
                r.pc = "decode" /\ r.shouldDither /\ NoDimensions(c)]_vars

\* an invocation has rejected an image without dimensions: it has returned
\* the original URL, its scratch file is gone and no cache file exists
C20_Witness ==
    \E c \in Calls :
        /\ Done(c) /\ call[c].failure = "invalidImage"
        /\ call[c].result = Fallback(c)
        /\ call[c].createdScratch /\ ~call[c].wroteCache
        /\ files[ScratchPathOf(call[c].url)] = Absent
        /\ files[CachePathOf(call[c].url)] = Absent

----------------------------------------------------------------------------
(* C14 *)

\* r is h * 840 / w rounded to the nearest integer, a half rounded up
IsRounded(r, h, w) == 2 * w * r <= 2 * h * 840 + w /\ 2 * h * 840 + w < 2 * w * (r + 1)

\* C14 as stated: an image wider than 840 comes out 840 wide and
\* round(height * 840 / width) high, an image at most 840 wide comes out with
\* its own dimensions, on both paths.
C14_ResizeInvariant ==
    dim.status = "ok" =>
       LET w == dim.in[1]
           h == dim.in[2]
       IN  IF w > 840
           THEN dim.out[1] = 840 /\ IsRounded(dim.out[2], h, w)
           ELSE dim.out = <<w, h>>

\* C14 as amended: whenever an output is produced, an image wider than 840
\* comes out 840 wide and round(height * 840 / width) high, but at least 1
\* high, and an image at most 840 wide comes out with its own dimensions, on
\* both paths; an output is produced whenever the rounded height is not 0.
C14_ResizeInvariantAboveZero ==
    LET w == dim.in[1]
        h == dim.in[2]
    IN  /\ (dim.status = "ok" /\ w <= 840) => dim.out = <<w, h>>
        /\ (dim.status = "ok" /\ w > 840) =>
              /\ dim.out[1] = 840
              /\ \/ IsRounded(dim.out[2], h, w) /\ dim.out[2] >= 1
                 \/ IsRounded(0, h, w) /\ dim.out[2] = 1
        /\ (dim.path # "none" /\ w > 0 /\ h > 0 /\ ~(IsRounded(0, h, w) /\ w > 840))
              => dim.status = "ok"

\* an image of 1680 x 1201 has come out as 840 x 601 on the dither path
C14_Witness ==
    /\ dim.path = "dither" /\ dim.status = "ok"
    /\ dim.in = <<1680, 1201>> /\ dim.out = <<840, 601>>

----------------------------------------------------------------------------
(* C19 *)

Max2(a, b) == IF a >= b THEN a ELSE b

\* C19 as stated: the longer of the two dimensions is capped at 840 and the
\* other one follows by rounding.
C19_LongerCapped ==
    dim.status = "ok" =>
       /\ Max2(dim.target[1], dim.target[2]) <= 840
       /\ dim.target # dim.in =>
             \/ dim.target[1] = 840 /\ IsRounded(dim.target[2], dim.in[2], dim.in[1])
             \/ dim.target[2] = 840 /\ IsRounded(dim.target[1], dim.in[1], dim.in[2])

\* C19 as amended: the width is capped at 840 and the height follows by
\* rounding (to 1 at least) when the width was reduced; the height itself
\* is not capped, so an image at most 840 wide keeps its dimensions however
\* high it is.
C19_WidthCapped ==
    dim.status = "ok" =>
       LET w  == dim.in[1]
           h  == dim.in[2]
           tw == dim.target[1]
           th == dim.target[2]
       IN  /\ tw = (IF w > 840 THEN 840 ELSE w)
           /\ tw < w =>
                 \/ th >= 1 /\ 2 * th * w - 2 * h * 840 \in (1 - w)..w
                 \/ th = 1 /\ 2 * h * 840 < w
           /\ tw = w => th = h

\* an image of 840 x 1680 has kept its dimensions: its height is above 840
C19_Witness ==
    /\ dim.status = "ok" /\ dim.path = "dither"
    /\ dim.in = <<840, 1680>> /\ dim.target = <<840, 1680>>

----------------------------------------------------------------------------
(* C15 *)

\* the extractor has returned or thrown
Settled == km.phase \in {"returned", "quantized", "threw"}

\* C15 as stated: for any buffer and any k the extractor does not fail and
\* returns exactly k colours, each with alpha byte 255.
C15_ReturnsK ==
    Settled =>
       /\ km.phase # "threw"
       /\ Len(km.palette) = km.numColors
       /\ \A i \in 1..Len(km.palette) : km.palette[i][1] \div 256 = 255

\* C15 as amended: for any buffer and any k >= 1 the extractor does not fail
\* and returns exactly k colours in the order of the centroids, each the
\* packed final centroid with alpha byte 255; duplicates are permitted.
C15_ReturnsKPositive ==
    /\ (km.phase # "none" /\ km.numColors >= 1) => km.phase # "threw"
    /\ (Settled /\ km.numColors >= 1) =>
          /\ km.iter = 10
          /\ DOMAIN km.palette = 1..km.numColors
          /\ \A i \in 1..km.numColors :
                LET c == km.centroids[i] IN
                /\ km.palette[i][1] \div 256 = 255
                /\ \/ c = <<Undef, Undef, Undef>> /\ km.palette[i] = <<65280, 0>>
                   \/ /\ \A ch \in 1..3 : c[ch] \in 0..255
                      /\ km.palette[i] = <<65280 + c[1], 256 * c[2] + c[3]>>

\* two colours were asked of a buffer of three pixels, and the extractor
\* returned the same colour twice
C15_Witness ==
    /\ km.phase = "returned"
    /\ km.numColors = 2 /\ Len(km.rawBuffer) = 3
    /\ Len(km.palette) = 2 /\ km.palette[1] = km.palette[2]
    /\ km.palette[1] = <<65280 + 100, 256 * 150 + 200>>

----------------------------------------------------------------------------
(* C16 *)

\* C16: for any pixel and any non-empty palette, the colour the quantizer
\* returns is a member of the palette, and the bytes encoded for the pixel
\* are the bytes of that palette colour.
C16_QuantizedInPalette ==
    (km.phase = "quantized" /\ km.palette # <<>>) =>
       \E i \in 1..Len(km.palette) :
          /\ km.quantized = km.palette[i]
          /\ Len(km.rgba) = 4 /\ km.rgba[4] = 255
          /\ <<255 * 256 + km.rgba[1], km.rgba[2] * 256 + km.rgba[3]>> = km.palette[i]

\* a pixel that is none of the palette's colours has been quantized to the
\* second of two distinct palette colours
C16_Witness ==
    /\ km.phase = "quantized"
    /\ Len(km.palette) = 2 /\ km.palette[1] # km.palette[2]
    /\ km.pixel \notin {km.palette[1], km.palette[2]}
    /\ km.quantized = km.palette[2]

----------------------------------------------------------------------------
(* C21 *)

\* C21: for every buffer of at least one pixel the stride is at least 1 and
\* at most 10,000 samples are collected.
C21_AtMostCapSamples ==
    km.phase = "sampled" =>
       /\ km.sampleStep >= 1
       /\ km.numSamples <= 10000

\* what holds of the code: the stride is at least 1 and is the quotient of
\* the code, and fewer than twice 10,000 samples are collected
C21_BelowTwiceCap ==
    km.phase = "sampled" =>
       LET t == km.totalPixels
           cap == IF t < 10000 THEN t ELSE 10000
       IN  /\ km.sampleStep >= 1
           /\ km.sampleStep * cap <= t /\ t < (km.sampleStep + 1) * cap
           /\ (km.numSamples - 1) * km.sampleStep < t
           /\ t <= km.numSamples * km.sampleStep
           /\ km.numSamples < 2 * 10000

----------------------------------------------------------------------------
(* C22 *)

\* a step of the extractor that is one completed round of k-means
IsRound == km.phase = "kmeans" /\ km'.phase = "kmeans" /\ km'.iter = km.iter + 1

\* the square of the Euclidean distance of two colours <<r, g, b>>
SqDist(p, q) ==
    (p[1] - q[1]) * (p[1] - q[1]) + (p[2] - q[2]) * (p[2] - q[2])
       + (p[3] - q[3]) * (p[3] - q[3])

\* C22: in each round every sample is assigned to exactly one cluster, that
\* of a centroid at minimum distance, and among the centroids at that
\* distance to the one with the lowest index.
C22_NearestLowestIndex ==
    [][IsRound =>
          LET n == Len(km.samples)
              k == Len(km.centroids)
          IN  /\ DOMAIN km'.clusters = 1..k
              /\ \A idx \in 1..n :
                    \E ci \in 1..k :
                       /\ idx \in km'.clusters[ci]
                       /\ \A cj \in 1..k : cj # ci => idx \notin km'.clusters[cj]
                       /\ \A cj \in 1..k :
                             SqDist(km.samples[idx], km.centroids[ci])
                                <= SqDist(km.samples[idx], km.centroids[cj])
                       /\ \A cj \in 1..(ci - 1) :
                             SqDist(km.samples[idx], km.centroids[ci])
                                < SqDist(km.samples[idx], km.centroids[cj])
              /\ \A ci \in 1..k : km'.clusters[ci] \subseteq 1..n]_vars

\* the first round ran on three samples and two centroids that started as the
\* same sample: all three samples are in the first cluster
C22_Witness ==
    /\ km.phase = "kmeans" /\ km.iter = 1
    /\ Len(km.samples) = 3 /\ km.numColors = 2
    /\ km.clusters = <<{1, 2, 3}, {}>>
    /\ km.samples[1] # km.samples[2]

----------------------------------------------------------------------------
(* C23 *)

RECURSIVE ChannelTotal(_, _, _, _)
\* the sum of channel ch over the samples 1..n that are in cluster
ChannelTotal(samples, n, cluster, ch) ==
    IF n = 0 THEN 0
    ELSE (IF n \in cluster THEN samples[n][ch] ELSE 0)
            + ChannelTotal(samples, n - 1, cluster, ch)

\* C23: in each round a centroid with samples becomes the rounded mean of its
\* samples, channel by channel, a centroid without samples keeps its value,
\* and the number of centroids stays k.
C23_MeanOrKept ==
    [][IsRound =>
          /\ Len(km'.centroids) = km.numColors
          /\ Len(km.centroids) = km.numColors
          /\ \A ci \in 1..km.numColors :
                LET cluster == km'.clusters[ci]
                    m == Cardinality(cluster)
                IN  IF m = 0
                    THEN km'.centroids[ci] = km.centroids[ci]
                    ELSE \A ch \in 1..3 :
                            LET t == ChannelTotal(km.samples, Len(km.samples), cluster, ch)
                                v == km'.centroids[ci][ch]
                            IN  2 * m * v <= 2 * t + m /\ 2 * t + m < 2 * m * (v + 1)]_vars

\* after a round the first centroid is the mean of a black and a white
\* sample, 128 on each channel (127.5 rounded), and the second, which got no
\* sample, is still the sample it started as
C23_Witness ==
    /\ km.phase = "kmeans" /\ km.iter = 1
    /\ Len(km.samples) = 2
    /\ km.numColors = 2
    /\ km.centroids[1] = <<128, 128, 128>>
    /\ km.clusters[2] = {}
    /\ km.centroids[2] \in {<<0, 0, 0>>, <<255, 255, 255>>}

----------------------------------------------------------------------------
(* C24 *)

----------------------------------------------------------------------------
(* C25 *)

\* the red, green and blue bytes of a 32-bit colour given as its two halves
Rgb(x) == <<x[1] % 256, x[2] \div 256, x[2] % 256>>

\* C25: for every pixel and every non-empty palette the quantizer returns
\* the palette entry whose red, green and blue are at minimum Euclidean
\* distance from the pixel's, the alpha bytes playing no part, and among the
\* entries at that minimum the first in palette order.
C25_NearestFirst ==
    (km.phase = "quantized" /\ km.palette # <<>>) =>
       \E i \in 1..Len(km.palette) :
          /\ km.quantized = km.palette[i]
          /\ \A j \in 1..Len(km.palette) :
                SqDist(Rgb(km.pixel), Rgb(km.palette[i]))
                   <= SqDist(Rgb(km.pixel), Rgb(km.palette[j]))
          /\ \A j \in 1..(i - 1) :
                SqDist(Rgb(km.pixel), Rgb(km.palette[i]))
                   < SqDist(Rgb(km.pixel), Rgb(km.palette[j]))

\* a pixel at the same distance from two distinct palette colours has been
\* quantized to the first of them
C25_Witness ==
    /\ km.phase = "quantized"
    /\ Len(km.palette) = 2 /\ km.palette[1] # km.palette[2]
    /\ SqDist(Rgb(km.pixel), Rgb(km.palette[1])) = SqDist(Rgb(km.pixel), Rgb(km.palette[2]))
    /\ km.quantized = km.palette[1]

\* the alpha byte is ignored: a transparent black pixel is quantized to the
\* opaque black of the palette
C25_AlphaIgnored ==
    (km.phase = "quantized" /\ km.pixel = <<0, 0>>
       /\ \E i \in 1..Len(km.palette) : km.palette[i] = <<255 * 256, 0>>)
       => km.quantized = <<255 * 256, 0>>


----------------------------------------------------------------------------
(* C26 *)

\* C26: the packing is bit-exact in both directions for all bytes r, g, b,
\* a: the packed value is a * 2^24 + r * 2^16 + g * 2^8 + b (255 for a in a
\* palette colour), it is non-negative and below 2^32, and unpacking it
\* gives back each byte.
C26_BitExact ==
    /\ km.phase \in {"argb", "palette", "rgbaOut"} =>
          /\ km.argb[1] \in 0..65535 /\ km.argb[2] \in 0..65535
          /\ km.argb[1] = (IF km.phase = "argb" \/ (km.phase = "rgbaOut" /\ km.from = "argb")
                           THEN km.rawBuffer[4] ELSE 255) * 256 + km.rawBuffer[1]
          /\ km.argb[2] = km.rawBuffer[2] * 256 + km.rawBuffer[3]
    /\ km.phase = "rgbaOut" =>
          /\ \A i \in 1..3 : km.rgba[i] = km.rawBuffer[i]
          /\ km.rgba[4] = IF km.from = "argb" THEN km.rawBuffer[4] ELSE 255

\* a pixel of four different bytes, with the top bit of alpha and of red
\* set, has gone through the packing and back
C26_Witness ==
    /\ km.phase = "rgbaOut" /\ km.from = "argb"
    /\ km.rawBuffer = <<128, 1, 127, 255>>
    /\ km.argb = <<255 * 256 + 128, 1 * 256 + 127>>
    /\ km.rgba = km.rawBuffer


----------------------------------------------------------------------------
(* C27 *)

\* C27: on the dither path, for every image whose original width and
\* height are at least 1, the computed target width and target height are
\* both at least 1 (so that the palette extractor receives at least one
\* pixel).
C27_TargetAtLeastOne ==
    (dim.path = "dither" /\ dim.in[1] >= 1 /\ dim.in[2] >= 1) =>
       (dim.target[1] >= 1 /\ dim.target[2] >= 1)

\* what does hold: the target width is at least 1, the target height is 0
\* only for an image more than 1680 times as wide as high, and the image is
\* then rejected before the extractor runs
C27_HeightZeroRejected ==
    (dim.path = "dither" /\ dim.in[1] >= 1 /\ dim.in[2] >= 1) =>
       /\ dim.target[1] >= 1
       /\ dim.target[2] = 0 <=> (dim.in[1] > 840 /\ 2 * 840 * dim.in[2] < dim.in[1])
       /\ dim.target[2] = 0 <=> dim.status = "error"
       /\ dim.target[2] >= 1 <=> dim.status = "ok"


----------------------------------------------------------------------------
(* C28 *)

\* the invocation found a cache file of its key, and every invocation that
\* has written to that file ran under the other mode
CrossModeHit(d) ==
    /\ Hit(call[d])
    /\ \E c \in Calls \ {d} :
          call[c].wroteCache /\ CachePathOf(call[c].url) = CachePathOf(call[d].url)
    /\ \A c \in Calls \ {d} :
          (call[c].wroteCache /\ CachePathOf(call[c].url) = CachePathOf(call[d].url))
             => call[c].shouldDither # call[d].shouldDither

\* C28: the cache path of a URL is the same under both modes, and an
\* invocation that starts while a cache file of its URL's key exists, written
\* by an invocation of the other mode, takes the hit branch: it fetches
\* nothing, creates no scratch file, writes no file, goes on to the
\* placeholder and returns the local url when that succeeds.
C28_HitAcrossModes ==
    /\ [][\A d \in Calls :
            (call[d].pc = "idle" /\ call'[d].pc # "idle") =>
               LET p == CachePathOf(call'[d].url) IN
               (files[p] # Absent
                  /\ call[files[p].by].shouldDither # call'[d].shouldDither) =>
                  /\ call'[d].pc = "placeholder"
                  /\ Hit(call'[d])
                  /\ call'[d].fetches = 0
                  /\ files' = files]_vars
    /\ [][\A d \in Calls :
            (CrossModeHit(d)' /\ call'[d] # call[d]) =>
               /\ files' = files
               /\ call'[d].fetches = 0
               /\ ~call'[d].createdScratch /\ ~call'[d].wroteCache
               /\ call'[d].pc \in {"placeholder", "done"}
               /\ call'[d].failure \in {"none", "placeholder"}
               /\ (Done(d)' /\ call'[d].failure = "none") =>
                     call'[d].result.url = LocalReference(call'[d].url)]_vars

\* an invocation under dithering has returned the local url of a file that
\* an invocation without dithering wrote
C28_Witness ==
    \E c, d \in Calls :
       /\ c # d /\ CrossModeHit(d) /\ call[d].shouldDither /\ ~call[c].shouldDither
       /\ Done(c) /\ call[c].wroteCache /\ call[c].failure = "none"
       /\ CachePathOf(call[c].url) = CachePathOf(call[d].url)
       /\ files[CachePathOf(call[d].url)].by = c
       /\ Done(d) /\ call[d].result.url = LocalReference(call[d].url)
       /\ call[d].result.blurDataURL # NoBlur


----------------------------------------------------------------------------
(* C29 *)

\* the invocation has returned the local url of its key
ReturnedLocal(c) == Done(c) /\ call[c].result.url = LocalReference(call[c].url)

\* C29: whenever an invocation has returned the local url, a file exists at
\* the cache path of its key, at the moment of the return and ever after, in
\* every interleaving of invocations; no step of any invocation removes a
\* cache file.
C29_LocalUrlHasFile ==
    /\ [](\A c \in Calls :
            ReturnedLocal(c) => files[CachePathOf(call[c].url)] # Absent)
    /\ [][\A p \in CachePaths : files[p] # Absent => files'[p] # Absent]_vars

\* an invocation has returned the local url of a key, and an invocation of
\* the same key that started before the file existed has since failed under
\* dithering and cleaned up, leaving the cache file in place
C29_Witness ==
    \E c, d \in Calls :
       /\ c # d /\ ReturnedLocal(c)
       /\ CachePathOf(call[d].url) = CachePathOf(call[c].url)
       /\ Done(d) /\ call[d].shouldDither /\ call[d].createdScratch
       /\ call[d].seen = "absent" /\ call[d].failure \notin {"none", "placeholder"}
       /\ files[ScratchPathOf(call[d].url)] = Absent
       /\ files[CachePathOf(call[c].url)] # Absent


----------------------------------------------------------------------------
(* C30 *)

\* the invocation is between its start and its return
InFlight(c) == call[c].pc \notin {"idle", "done"}

\* C30: when every awaited I/O step eventually completes or fails, every
\* invocation that has started eventually returns, with the local url or
\* with the original one, whatever other invocations of the same or of other
\* URLs do meanwhile; and no invocation waits on another: whenever it is in
\* flight, its own next step can be taken.
C30_EventuallyReturns ==
    /\ \A c \in Calls :
          (call[c].pc # "idle") ~>
             (Done(c) /\ call[c].result.url \in {LocalReference(call[c].url), call[c].url})
    /\ [](\A c \in Calls :
            /\ call[c].pc = "fetch" => ENABLED FetchSettle(c)
            /\ call[c].pc = "decode" => ENABLED Decode(c)
            /\ call[c].pc = "toFile" => ENABLED ToFileBegin(c)
            /\ call[c].pc = "toFileEnd" => ENABLED ToFileEnd(c)
            /\ call[c].pc = "placeholder" => ENABLED Placeholder(c)
            /\ call[c].pc \in {"idle", "done", "fetch", "decode", "toFile",
                               "toFileEnd", "placeholder"})

\* an invocation has returned while an invocation of the same key that
\* started before it is still in flight
C30_Witness ==
    \E c, d \in Calls :
       /\ c < d /\ InFlight(c) /\ Done(d)
       /\ CachePathOf(call[c].url) = CachePathOf(call[d].url)
       /\ call[c].pc = "toFileEnd" /\ Hit(call[d])

====
